---- MODULE Spec2Model ----
(***************************************************************************)
(* A model of src/addressbook.py: the field validators (Name, Phone,       *)
(* Birthday), Record, AddressBook with get_upcoming_birthdays, and the     *)
(* command handlers of main().                                             *)
(*                                                                         *)
(* A Python str is modelled as the sequence of its Unicode code points, so *)
(* that str.isdigit, the regular expression of datetime.strptime and       *)
(* strftime are computed character by character.  Names are kept as TLA+   *)
(* strings: the code only tests them for emptiness and equality.           *)
(* An optional value (None or an object) is a sequence of length 0 or 1.   *)
(***************************************************************************)
EXTENDS Integers, Sequences, FiniteSets, TLC

VARIABLES
    book,   \* AddressBook.data: the records in insertion order (a dict)
    prev,   \* the value of book before the last operation
    ret     \* the last operation: its name, arguments, exception and result

vars == <<book, prev, ret>>

----------------------------------------------------------------------------
(* Characters and strings                                                  *)

Dot   == 46   \* "."
Dash  == 45   \* "-"

AsciiDigits  == 48..57          \* "0".."9"
ArabicDigits == 1632..1641      \* U+0660..U+0669, category Nd
SuperDigits  == {178, 179, 185} \* U+00B2, U+00B3, U+00B9: digits, not decimals

\* str.isdigit() of one character: Numeric_Type Digit or Decimal.
IsDigitChar(c) == c \in AsciiDigits \/ c \in ArabicDigits \/ c \in SuperDigits

\* The regular expression class \d on str patterns, and what int() accepts.
IsDecimalChar(c) == c \in AsciiDigits \/ c \in ArabicDigits

DigitVal(c) == IF c \in AsciiDigits THEN c - 48 ELSE c - 1632

\* str.isdigit(): a non-empty string of digit characters.
IsDigit(s) == Len(s) > 0 /\ \A i \in 1..Len(s) : IsDigitChar(s[i])

\* The character at position i (1-based), or -1 past the end of the string.
At(s, i) == IF i \in 1..Len(s) THEN s[i] ELSE -1

\* Comparison of two str values, as sorted() compares dictionary keys.
RECURSIVE StrLess(_, _)
StrLess(a, b) ==
    IF Len(b) = 0 THEN FALSE
    ELSE IF Len(a) = 0 THEN TRUE
    ELSE IF Head(a) # Head(b) THEN Head(a) < Head(b)
    ELSE StrLess(Tail(a), Tail(b))

----------------------------------------------------------------------------
(* Field validators                                                        *)

PhoneLen == 10

\* Name.__init__: raises ValueError when the value is empty.
NameOk(value) == value # ""

\* Phone.__init__: raises ValueError unless value.isdigit() and len is 10.
PhoneOk(value) == ~(~IsDigit(value) \/ Len(value) # PhoneLen)

----------------------------------------------------------------------------
(* datetime.date                                                           *)

IsLeap(y) == y % 4 = 0 /\ (y % 100 # 0 \/ y % 400 = 0)

DaysInMonth(y, m) ==
    IF m = 2 THEN (IF IsLeap(y) THEN 29 ELSE 28)
    ELSE IF m \in {4, 6, 9, 11} THEN 30 ELSE 31

\* date(y, m, d) raises ValueError outside these ranges.
DateOk(y, m, d) ==
    /\ y \in 1..9999
    /\ m \in 1..12
    /\ d >= 1 /\ d <= DaysInMonth(y, m)

Date(y, m, d) == [y |-> y, m |-> m, d |-> d]

DaysBeforeYear(y) ==
    ((y - 1) * 365) + ((y - 1) \div 4) - ((y - 1) \div 100) + ((y - 1) \div 400)

RECURSIVE DaysBeforeMonth(_, _)
DaysBeforeMonth(y, m) ==
    IF m = 1 THEN 0 ELSE DaysBeforeMonth(y, m - 1) + DaysInMonth(y, m - 1)

\* date.toordinal()
Ordinal(dt) == DaysBeforeYear(dt.y) + DaysBeforeMonth(dt.y, dt.m) + dt.d

\* date.weekday(): Monday is 0, Sunday is 6.
Weekday(dt) == (Ordinal(dt) + 6) % 7

\* date < date
DateLess(a, b) ==
    \/ a.y < b.y
    \/ a.y = b.y /\ a.m < b.m
    \/ a.y = b.y /\ a.m = b.m /\ a.d < b.d

\* date.replace(year=y): <<>> stands for the ValueError of an impossible date.
ReplaceYear(dt, y) ==
    IF DateOk(y, dt.m, dt.d) THEN <<Date(y, dt.m, dt.d)>> ELSE <<>>

NextDay(dt) ==
    IF dt.d < DaysInMonth(dt.y, dt.m) THEN Date(dt.y, dt.m, dt.d + 1)
    ELSE IF dt.m < 12 THEN Date(dt.y, dt.m + 1, 1)
    ELSE Date(dt.y + 1, 1, 1)

\* date + timedelta(days=k), k >= 0.
RECURSIVE AddDays(_, _)
AddDays(dt, k) == IF k = 0 THEN dt ELSE AddDays(NextDay(dt), k - 1)

----------------------------------------------------------------------------
(* strptime and strftime                                                   *)

\* The alternatives of the directive %d, in the order of the expression
\* (3[0-1]|[1-2]\d|0[1-9]|[1-9]| [1-9]): whether alternative k matches at
\* position i, and how many characters it takes.
DayAltLen(k) == IF k = 4 THEN 1 ELSE 2

DayAltOk(k, s, i) ==
    CASE k = 1 -> At(s, i) = 51 /\ At(s, i + 1) \in {48, 49}
      [] k = 2 -> At(s, i) \in {49, 50} /\ IsDecimalChar(At(s, i + 1))
      [] k = 3 -> At(s, i) = 48 /\ At(s, i + 1) \in 49..57
      [] k = 4 -> At(s, i) \in 49..57
      [] k = 5 -> At(s, i) = 32 /\ At(s, i + 1) \in 49..57

\* The alternatives of %m: (1[0-2]|0[1-9]|[1-9]).
MonthAltLen(j) == IF j = 3 THEN 1 ELSE 2

MonthAltOk(j, s, i) ==
    CASE j = 1 -> At(s, i) = 49 /\ At(s, i + 1) \in {48, 49, 50}
      [] j = 2 -> At(s, i) = 48 /\ At(s, i + 1) \in 49..57
      [] j = 3 -> At(s, i) \in 49..57

\* %Y: (\d\d\d\d)
YearOk(s, i) == \A n \in 0..3 : IsDecimalChar(At(s, i + n))

\* int() of the characters i .. i+n-1 of s, a matched group: decimal digits,
\* after a space (which int() strips) in the last alternative of %d.
RECURSIVE IntOf(_, _, _)
IntOf(s, i, n) ==
    IF n = 0 THEN 0
    ELSE IF s[i + n - 1] = 32 THEN IntOf(s, i, n - 1)
    ELSE IntOf(s, i, n - 1) * 10 + DigitVal(s[i + n - 1])

\* datetime(y, m, d).date() at the end of strptime: <<date>>, or <<>> for the
\* ValueError of a date that does not exist.
MakeDate(y, m, d) == IF DateOk(y, m, d) THEN <<Date(y, m, d)>> ELSE <<>>

\* The expression of "%d.%m.%Y" at the start of s, with the n-th choice of
\* alternatives for %d (the outer choice) and %m, in the order a backtracking
\* matcher tries them.
DMYOk(s, k, j) ==
    /\ DayAltOk(k, s, 1)
    /\ At(s, 1 + DayAltLen(k)) = Dot
    /\ MonthAltOk(j, s, 2 + DayAltLen(k))
    /\ At(s, 2 + DayAltLen(k) + MonthAltLen(j)) = Dot
    /\ YearOk(s, 3 + DayAltLen(k) + MonthAltLen(j))

\* What strptime does with the match: ValueError when data remains after it,
\* or the date of the fields.
DMYFields(s, dl, ml) ==
    IF Len(s) # dl + ml + 6 THEN <<>>
    ELSE MakeDate(IntOf(s, 3 + dl + ml, 4), IntOf(s, 2 + dl, ml), IntOf(s, 1, dl))

RECURSIVE DMYFrom(_, _)
DMYFrom(s, n) ==
    IF n > 15 THEN <<>>
    ELSE IF DMYOk(s, ((n - 1) \div 3) + 1, ((n - 1) % 3) + 1)
    THEN DMYFields(s, DayAltLen(((n - 1) \div 3) + 1), MonthAltLen(((n - 1) % 3) + 1))
    ELSE DMYFrom(s, n + 1)

\* datetime.strptime(s, "%d.%m.%Y").date(): <<date>>, or <<>> for ValueError
\* (no match, unconverted data remaining, or no such calendar date).
StrptimeDMY(s) == DMYFrom(s, 1)

\* The same for "%Y.%m.%d": the alternatives of %m are the outer choice.
YMDOk(s, j, k) ==
    /\ YearOk(s, 1)
    /\ At(s, 5) = Dot
    /\ MonthAltOk(j, s, 6)
    /\ At(s, 6 + MonthAltLen(j)) = Dot
    /\ DayAltOk(k, s, 7 + MonthAltLen(j))

YMDFields(s, ml, dl) ==
    IF Len(s) # dl + ml + 6 THEN <<>>
    ELSE MakeDate(IntOf(s, 1, 4), IntOf(s, 6, ml), IntOf(s, 7 + ml, dl))

RECURSIVE YMDFrom(_, _)
YMDFrom(s, n) ==
    IF n > 15 THEN <<>>
    ELSE IF YMDOk(s, ((n - 1) \div 5) + 1, ((n - 1) % 5) + 1)
    THEN YMDFields(s, MonthAltLen(((n - 1) \div 5) + 1), DayAltLen(((n - 1) % 5) + 1))
    ELSE YMDFrom(s, n + 1)

\* datetime.strptime(s, "%Y.%m.%d")
StrptimeYMD(s) == YMDFrom(s, 1)

\* %d and %m of strftime: two digits, zero padded.
Pad2(n) == <<48 + (n \div 10), 48 + (n % 10)>>

\* %Y of strftime: the decimal digits of the year (the C library pads
\* nothing; the years of this model have four digits).
RECURSIVE Decimal(_)
Decimal(n) == IF n < 10 THEN <<48 + n>> ELSE Append(Decimal(n \div 10), 48 + (n % 10))

\* strftime("%d.%m.%Y")
StrftimeDMY(dt) == Pad2(dt.d) \o <<Dot>> \o Pad2(dt.m) \o <<Dot>> \o Decimal(dt.y)

\* strftime("%Y.%m.%d")
StrftimeYMD(dt) == Decimal(dt.y) \o <<Dot>> \o Pad2(dt.m) \o <<Dot>> \o Pad2(dt.d)

\* strftime("%m-%d")
StrftimeMD(dt) == Pad2(dt.m) \o <<Dash>> \o Pad2(dt.d)

\* Birthday.__init__: raises ValueError unless strptime accepts the value.
BirthdayOk(value) == StrptimeDMY(value) # <<>>

\* Birthday.value: the stored string parsed again.
BirthdayValue(value) == StrptimeDMY(value)[1]

----------------------------------------------------------------------------
(* Record                                                                  *)

\* Record.__init__ (for a name that Name accepts).
Record(name) == [name |-> name, phones |-> <<>>, birthday |-> <<>>]

\* An exception, or the value an operation returns with the record it leaves.
Raise(type, msg, rec) == [err |-> type, msg |-> msg, rec |-> rec]
Return(rec) == [err |-> "", msg |-> "", rec |-> rec]

\* Record.find_phone: the position of the first phone equal to phone, or 0.
FindPhone(phones, phone) ==
    IF \E i \in 1..Len(phones) : phones[i] = phone
    THEN CHOOSE i \in 1..Len(phones) :
            /\ phones[i] = phone
            /\ \A j \in 1..(i - 1) : phones[j] # phone
    ELSE 0

\* Record.add_phone
AddPhone(rec, phone) ==
    IF PhoneOk(phone)
    THEN Return([rec EXCEPT !.phones = Append(@, phone)])
    ELSE Raise("ValueError", "Phone number must contain 10 digits", rec)

\* list.remove of the object find_phone returned.
RemoveAt(phones, i) ==
    [k \in 1..(Len(phones) - 1) |-> IF k < i THEN phones[k] ELSE phones[k + 1]]

\* Record.remove_phone
RemovePhone(rec, phone) ==
    LET p == FindPhone(rec.phones, phone)
    IN  IF p # 0
        THEN Return([rec EXCEPT !.phones = RemoveAt(@, p)])
        ELSE Raise("ValueError", "Phone number not found", rec)

\* p.value = value on the Phone object at position i.
SetValueAt(phones, i, value) == [phones EXCEPT ![i] = value]

\* Record.edit_phone
EditPhone(rec, old_phone, new_phone) ==
    LET p == FindPhone(rec.phones, old_phone)
    IN  IF p # 0
        THEN IF PhoneOk(new_phone)
             THEN Return([rec EXCEPT !.phones = SetValueAt(@, p, new_phone)])
             ELSE Raise("ValueError", "Invalid new phone number", rec)
        ELSE Raise("ValueError", "Phone number not found", rec)

\* Record.add_birthday: the ValueError of Birthday is printed, not raised.
AddBirthday(rec, birthday) ==
    IF BirthdayOk(birthday)
    THEN Return([rec EXCEPT !.birthday = <<birthday>>])
    ELSE Return(rec)

\* Record.show_birthday: <<>> is None.
ShowBirthday(rec) ==
    IF rec.birthday # <<>>
    THEN <<StrftimeDMY(BirthdayValue(rec.birthday[1]))>>
    ELSE <<>>

----------------------------------------------------------------------------
(* AddressBook                                                             *)

\* The position of the key name in the dict, or 0.
IndexOf(b, name) ==
    IF \E i \in 1..Len(b) : b[i].name = name
    THEN CHOOSE i \in 1..Len(b) : b[i].name = name
    ELSE 0

AddRecordMutant(b, record) == Append(b, record)

\* AddressBook.add_record: self.data[record.name.value] = record.  An
\* existing key keeps its place in the dict.
AddRecord(b, record) ==
    IF IndexOf(b, record.name) # 0
    THEN [b EXCEPT ![IndexOf(b, record.name)] = record]
    ELSE Append(b, record)

\* AddressBook.find: <<>> is None.
Find(b, name) == IF IndexOf(b, name) # 0 THEN <<b[IndexOf(b, name)]>> ELSE <<>>

\* AddressBook.delete
Delete(b, name) ==
    IF IndexOf(b, name) # 0
    THEN LET i == IndexOf(b, name)
         IN  [k \in 1..(Len(b) - 1) |-> IF k < i THEN b[k] ELSE b[k + 1]]
    ELSE b

\* Lines 137-139: the birthday in today's year, or in the next one when it
\* has passed; <<>> is the ValueError of date.replace.
BirthdayThisYear(bd, today) ==
    LET this == ReplaceYear(bd, today.y)
    IN  IF this = <<>> THEN <<>>
        ELSE IF DateLess(this[1], today) THEN ReplaceYear(this[1], today.y + 1)
        ELSE this

DaysToAddMutant(wd) == IF wd = 5 THEN 1 ELSE 2

\* Line 145
DaysToAdd(wd) == IF wd = 5 THEN 2 ELSE 1

\* Lines 143-146
GreetingDate(bty) ==
    IF Weekday(bty) >= 5 THEN AddDays(bty, DaysToAdd(Weekday(bty))) ELSE bty

\* Lines 141-147 for the entry of name, whose birthday_this_year is bty: the
\* list with the entry appended when it is in the window.
Considered(acc, name, bty, delta) ==
    IF 0 <= delta /\ delta < 7
    THEN Append(acc, [name |-> name, birthday |-> StrftimeYMD(GreetingDate(bty))])
    ELSE acc

\* The loop of get_upcoming_birthdays from the i-th entry of the dict on; a
\* ValueError of date.replace ends the call.
RECURSIVE UpcomingLoop(_, _, _, _)
RECURSIVE UpcomingStep(_, _, _, _, _)
UpcomingStep(b, i, today, acc, bty) ==
    IF bty = <<>> THEN [err |-> "ValueError", val |-> <<>>]
    ELSE UpcomingLoop(b, i + 1, today,
            Considered(acc, b[i].name, bty[1], Ordinal(bty[1]) - Ordinal(today)))

UpcomingLoop(b, i, today, acc) ==
    IF i > Len(b) THEN [err |-> "", val |-> acc]
    ELSE IF b[i].birthday = <<>> THEN UpcomingLoop(b, i + 1, today, acc)
    ELSE UpcomingStep(b, i, today, acc,
            BirthdayThisYear(BirthdayValue(b[i].birthday[1]), today))

\* AddressBook.get_upcoming_birthdays, with today = datetime.now().date().
GetUpcomingBirthdays(b, today) == UpcomingLoop(b, 1, today, <<>>)

\* A method of a record of the book changes the object the dict holds.
Update(b, rec) == [b EXCEPT ![IndexOf(b, rec.name)] = rec]

----------------------------------------------------------------------------
(* The command handlers of main(), each under input_error                  *)

\* What input_error returns: the exception it caught ("" for none), the
\* message it displays, the data shown in the message, and the book the
\* handler leaves.
Handled(err, msg, val, b) == [err |-> err, msg |-> msg, val |-> val, book |-> b]

\* add_contact
AddContact(args, b) ==
    IF Len(args) < 2
    THEN Handled("ValueError", "not enough values to unpack", <<>>, b)
    ELSE LET name   == args[1]
             phone  == args[2]
             isNew  == Find(b, name) = <<>>
             b1     == IF isNew THEN AddRecord(b, Record(name)) ELSE b
             message == IF isNew THEN "Contact added." ELSE "Contact updated."
         IN  IF isNew /\ ~NameOk(name)
             THEN Handled("ValueError", "Name cannot be empty", <<>>, b)
             ELSE IF Len(phone) > 0
             THEN LET r == AddPhone(Find(b1, name)[1], phone)
                  IN  IF r.err # ""
                      THEN Handled(r.err, r.msg, <<>>, b1)
                      ELSE Handled("", message, <<>>, Update(b1, r.rec))
             ELSE Handled("", message, <<>>, b1)

\* change_contact
ChangeContact(args, b) ==
    IF Len(args) # 3
    THEN Handled("ValueError", "wrong number of values to unpack", <<>>, b)
    ELSE IF Find(b, args[1]) = <<>>
    THEN Handled("KeyError", "Contact not found.", <<>>, b)
    ELSE LET r == EditPhone(Find(b, args[1])[1], args[2], args[3])
         IN  IF r.err # ""
             THEN Handled(r.err, r.msg, <<>>, b)
             ELSE Handled("", "Contact updated.", <<>>, Update(b, r.rec))

\* show_phone
ShowPhone(args, b) ==
    IF Len(args) = 0
    THEN Handled("IndexError", "Invalid command format. Please try again.", <<>>, b)
    ELSE IF Find(b, args[1]) = <<>>
    THEN Handled("KeyError", "Contact not found.", <<>>, b)
    ELSE Handled("", "phones", Find(b, args[1])[1].phones, b)

\* add_birthday (the handler)
AddBirthdayCmd(args, b) ==
    IF Len(args) # 2
    THEN Handled("ValueError", "wrong number of values to unpack", <<>>, b)
    ELSE IF Find(b, args[1]) = <<>>
    THEN Handled("KeyError", "Contact not found.", <<>>, b)
    ELSE Handled("", "Birthday added.", <<>>,
                 Update(b, AddBirthday(Find(b, args[1])[1], args[2]).rec))

\* show_birthday (the handler)
ShowBirthdayCmd(args, b) ==
    IF Len(args) = 0
    THEN Handled("IndexError", "Invalid command format. Please try again.", <<>>, b)
    ELSE IF Find(b, args[1]) = <<>>
    THEN Handled("KeyError", "Contact not found.", <<>>, b)
    ELSE Handled("", "birthday", ShowBirthday(Find(b, args[1])[1]), b)

\* birthdays_by_day.setdefault(key, (display_day, []))[1].append(name) over the
\* items from the i-th on; the dict is the sequence of its items in insertion
\* order.
RECURSIVE GroupLoop(_, _, _)
GroupLoop(upcoming, i, groups) ==
    IF i > Len(upcoming) THEN groups
    ELSE LET day  == StrptimeYMD(upcoming[i].birthday)[1]
             key  == StrftimeMD(day)
             disp == [weekday |-> Weekday(day),
                      dm |-> Pad2(day.d) \o <<Dot>> \o Pad2(day.m)]
             at   == IF \E g \in 1..Len(groups) : groups[g].key = key
                     THEN CHOOSE g \in 1..Len(groups) : groups[g].key = key
                     ELSE 0
         IN  GroupLoop(upcoming, i + 1,
                IF at # 0
                THEN [groups EXCEPT ![at].names = Append(@, upcoming[i].name)]
                ELSE Append(groups, [key |-> key, display_day |-> disp,
                                     names |-> <<upcoming[i].name>>]))

\* sorted(birthdays_by_day.items()): by key, the keys being distinct.
RECURSIVE SortedItems(_)
SortedItems(groups) ==
    IF Len(groups) = 0 THEN <<>>
    ELSE LET least == CHOOSE g \in 1..Len(groups) :
                          \A h \in 1..Len(groups) :
                              h = g \/ StrLess(groups[g].key, groups[h].key)
         IN  <<groups[least]>> \o
             SortedItems([k \in 1..(Len(groups) - 1) |->
                             IF k < least THEN groups[k] ELSE groups[k + 1]])

\* birthdays (the handler)
Birthdays(args, b, today) ==
    LET up == GetUpcomingBirthdays(b, today)
    IN  IF up.err # "" THEN Handled(up.err, "day is out of range for month", <<>>, b)
        ELSE IF Len(up.val) > 0
        THEN Handled("", "Upcoming birthdays:", SortedItems(GroupLoop(up.val, 1, <<>>)), b)
        ELSE Handled("", "No upcoming birthdays in the next 7 days.", <<>>, b)

----------------------------------------------------------------------------
(* Inputs                                                                  *)

MaxPhones == 2    \* add_phone is not called on a record that holds this many
TodaySpan == 3    \* the days of each window of Todays after its first day

Names == {"Al", "Bo"}

Phone1      == <<49, 49, 49, 49, 49, 49, 49, 49, 49, 49>>  \* "1111111111"
Phone2      == <<50, 50, 50, 50, 50, 50, 50, 50, 50, 50>>  \* "2222222222"
PhoneArabic == <<1633, 1634, 1635, 1636, 1637, 1638, 1639, 1640, 1641, 1632>>
PhoneShort  == <<49, 50, 51, 52, 53, 54, 55, 56, 57>>      \* "123456789"
PhoneAlpha  == <<49, 50, 51, 52, 53, 54, 55, 56, 97, 48>>  \* "12345678a0"
PhoneAbc    == <<97, 98, 99>>                              \* "abc"

PhoneInputs == {Phone1, Phone2, PhoneArabic, PhoneShort, PhoneAlpha}

\* "DD.MM.YYYY" written with ASCII digits.
DMY(d, m, y) == Pad2(d) \o <<Dot>> \o Pad2(m) \o <<Dot>> \o Decimal(y)

Bday1206  == DMY(12, 6, 1990)
Bday1506  == DMY(15, 6, 1990)
Bday2902  == DMY(29, 2, 2024)
Bday0203  == DMY(2, 3, 1990)
Bday3112  == DMY(31, 12, 1990)
Bday0201  == DMY(2, 1, 1991)
BdayShort == <<49, Dot, 54, Dot, 49, 57, 57, 48>>               \* "1.6.1990"
BdaySpace == <<32, 49, Dot, 48, 54, Dot, 49, 57, 57, 48>>       \* " 1.06.1990"
Bday3102  == DMY(31, 2, 2024)                                   \* no such day
BdayAlpha == <<97, 98, Dot, 99, 100, Dot, 101, 102, 103, 104>>  \* "ab.cd.efgh"

BirthdayInputs ==
    {Bday1506, Bday2902, Bday0203, Bday3112, Bday0201, BdayShort, BdaySpace,
     Bday3102, BdayAlpha}

\* The values datetime.now().date() takes in the model: the days of four
\* windows, in June, at the end of December, and at the end of February of a
\* leap year and of a common year.
TodayStarts == {Date(2024, 6, 9), Date(2024, 12, 28), Date(2024, 2, 27), Date(2025, 2, 26)}
Todays == {AddDays(dt, k) : dt \in TodayStarts, k \in 0..TodaySpan}

\* Records as a caller builds them before add_record: Record(name), then
\* add_phone and add_birthday calls that succeeded.
Built(names, phones, birthdays) ==
    {[name |-> n, phones |-> ps, birthday |-> bd] :
        n \in {x \in names : NameOk(x)},
        ps \in {<<>>} \cup {<<p>> : p \in {x \in phones : PhoneOk(x)}},
        bd \in {<<>>} \cup {<<s>> : s \in {x \in birthdays : BirthdayOk(x)}}}

----------------------------------------------------------------------------
(* The state machine                                                       *)

Ret(op, args, err, msg, val) ==
    [op |-> op, args |-> args, err |-> err, msg |-> msg, val |-> val]

Init ==
    /\ book = <<>>
    /\ prev = <<>>
    /\ ret = Ret("init", <<>>, "", "", <<>>)

\* book.add_record(record)
DoAddRecord(record) ==
    /\ book' = AddRecord(book, record)
    /\ prev' = book
    /\ ret' = Ret("add_record", <<record>>, "", "", <<>>)

\* book.find(name)
DoFind(name) ==
    /\ book' = book
    /\ prev' = book
    /\ ret' = Ret("find", <<name>>, "", "", Find(book, name))

\* book.delete(name)
DoDelete(name) ==
    /\ book' = Delete(book, name)
    /\ prev' = book
    /\ ret' = Ret("delete", <<name>>, "", "", <<>>)

\* book.find(name).add_phone(phone)
DoAddPhone(name, phone) ==
    /\ Find(book, name) # <<>>
    /\ Len(Find(book, name)[1].phones) < MaxPhones
    /\ LET r == AddPhone(Find(book, name)[1], phone)
       IN  /\ book' = Update(book, r.rec)
           /\ ret' = Ret("add_phone", <<name, phone>>, r.err, r.msg, <<>>)
    /\ prev' = book

\* book.find(name).remove_phone(phone)
DoRemovePhone(name, phone) ==
    /\ Find(book, name) # <<>>
    /\ LET r == RemovePhone(Find(book, name)[1], phone)
       IN  /\ book' = Update(book, r.rec)
           /\ ret' = Ret("remove_phone", <<name, phone>>, r.err, r.msg, <<>>)
    /\ prev' = book

\* book.find(name).edit_phone(old_phone, new_phone)
DoEditPhone(name, old_phone, new_phone) ==
    /\ Find(book, name) # <<>>
    /\ LET r == EditPhone(Find(book, name)[1], old_phone, new_phone)
       IN  /\ book' = Update(book, r.rec)
           /\ ret' = Ret("edit_phone", <<name, old_phone, new_phone>>, r.err, r.msg, <<>>)
    /\ prev' = book

\* book.find(name).add_birthday(birthday)
DoAddBirthday(name, birthday) ==
    /\ Find(book, name) # <<>>
    /\ LET r == AddBirthday(Find(book, name)[1], birthday)
       IN  /\ book' = Update(book, r.rec)
           /\ ret' = Ret("add_birthday", <<name, birthday>>, r.err, r.msg, <<>>)
    /\ prev' = book

\* book.find(name).show_birthday()
DoShowBirthday(name) ==
    /\ Find(book, name) # <<>>
    /\ book' = book
    /\ prev' = book
    /\ ret' = Ret("show_birthday", <<name>>, "", "", ShowBirthday(Find(book, name)[1]))

\* book.get_upcoming_birthdays() on the day today
DoGetUpcomingBirthdays(today) ==
    /\ book' = book
    /\ prev' = book
    /\ LET r == GetUpcomingBirthdays(book, today)
       IN  ret' = Ret("get_upcoming_birthdays", <<today>>, r.err, "", r.val)

\* One command of the loop of main(): the handler h has run on args.
DoCommand(command, args, h) ==
    /\ book' = h.book
    /\ prev' = book
    /\ ret' = Ret(command, args, h.err, h.msg, h.val)

\* The command "birthdays" on the day today
DoBirthdays(today) == DoCommand("birthdays", <<today>>, Birthdays(<<>>, book, today))

\* add <args>
DoAdd(args) ==
    /\ Len(args) >= 2 /\ Find(book, args[1]) # <<>>
          => Len(Find(book, args[1])[1].phones) < MaxPhones
    /\ DoCommand("add", args, AddContact(args, book))

\* change <args>
DoChange(args) == DoCommand("change", args, ChangeContact(args, book))

\* phone <args>
DoPhone(args) == DoCommand("phone", args, ShowPhone(args, book))

\* add-birthday <args>
DoAddBirthdayCmd(args) == DoCommand("add-birthday", args, AddBirthdayCmd(args, book))

\* show-birthday <args>
DoShowBirthdayCmd(args) == DoCommand("show-birthday", args, ShowBirthdayCmd(args, book))

\* The operations of one Record, held by the book, on its phones.
Owner == "Al"

Next ==
    \/ \E r \in Built({Owner}, PhoneInputs, {}) : DoAddRecord(r)
    \/ DoDelete(Owner)
    \/ \E p \in PhoneInputs : DoAddPhone(Owner, p)
    \/ \E p \in PhoneInputs : DoRemovePhone(Owner, p)
    \/ \E o \in PhoneInputs, p \in PhoneInputs : DoEditPhone(Owner, o, p)

Spec == Init /\ [][Next]_vars

\* The dict operations of AddressBook on records built beforehand.
NextBook ==
    \/ \E r \in Built(Names, PhoneInputs, {Bday1206}) : DoAddRecord(r)
    \/ \E n \in Names : DoFind(n)
    \/ \E n \in Names : DoDelete(n)

SpecBook == Init /\ [][NextBook]_vars

\* Birthdays: records without phones, the birthday operations and the query.
NextBirthdays ==
    \/ \E n \in Names : DoAddRecord(Record(n))
    \/ \E n \in Names, s \in BirthdayInputs : DoAddBirthday(n, s)
    \/ \E n \in Names : DoShowBirthday(n)
    \/ \E t \in Todays : DoGetUpcomingBirthdays(t)
    \/ \E t \in Todays : DoBirthdays(t)

SpecBirthdays == Init /\ [][NextBirthdays]_vars

\* The command loop of main(): argument lists of every length the handlers
\* tell apart.
CmdPhones    == {Phone1, Phone2, PhoneAbc}
CmdBirthdays == {Bday2902, Bday3102}
CmdTodays    == {Date(2024, 2, 28), Date(2025, 2, 28)}

AddArgs ==
    {<<>>} \cup {<<n>> : n \in Names}
           \cup {<<n, p>> : n \in Names, p \in CmdPhones}
           \cup {<<n, p, Phone1>> : n \in Names, p \in CmdPhones}

ChangeArgs ==
    {<<>>} \cup {<<n, o>> : n \in Names, o \in CmdPhones}
           \cup {<<n, o, p>> : n \in Names, o \in CmdPhones, p \in CmdPhones}
           \cup {<<n, Phone1, Phone2, Phone1>> : n \in Names}

NameArgs == {<<>>} \cup {<<n>> : n \in Names} \cup {<<n, Phone1>> : n \in Names}

BirthdayArgs ==
    {<<>>} \cup {<<n>> : n \in Names}
           \cup {<<n, s>> : n \in Names, s \in CmdBirthdays}
           \cup {<<n, s, s>> : n \in Names, s \in CmdBirthdays}

NextCommands ==
    \/ \E args \in AddArgs : DoAdd(args)
    \/ \E args \in ChangeArgs : DoChange(args)
    \/ \E args \in NameArgs : DoPhone(args)
    \/ \E args \in BirthdayArgs : DoAddBirthdayCmd(args)
    \/ \E args \in NameArgs : DoShowBirthdayCmd(args)
    \/ \E t \in CmdTodays : DoBirthdays(t)

SpecCommands == Init /\ [][NextCommands]_vars

----------------------------------------------------------------------------
(* The properties                                                          *)

\* A phone as the specification defines it: exactly 10 ASCII digits.
IsTenAsciiDigits(s) == Len(s) = 10 /\ \A i \in 1..Len(s) : s[i] \in 48..57

\* The number written by the two, or four, ASCII digits of s from position i.
Num2(s, i) == (s[i] - 48) * 10 + (s[i + 1] - 48)
Num4(s, i) == Num2(s, i) * 100 + Num2(s, i + 2)

\* A calendar date written in the exact format DD.MM.YYYY.
IsDDMMYYYY(s) ==
    /\ Len(s) = 10
    /\ s[3] = 46 /\ s[6] = 46
    /\ \A i \in {1, 2, 4, 5, 7, 8, 9, 10} : s[i] \in 48..57
    /\ DateOk(Num4(s, 7), Num2(s, 4), Num2(s, 1))

\* The date a greeting string "YYYY.MM.DD" of get_upcoming_birthdays names.
GreetingOf(entry) == Date(Num4(entry.birthday, 1), Num2(entry.birthday, 6), Num2(entry.birthday, 9))

\* The years in which the month and day of bd, placed in today's year (or in
\* the next year when that date is earlier than today), fall 0 to 6 days
\* after today.
WindowYears(bd, today) ==
    {y \in {today.y, today.y + 1} :
        /\ DateOk(today.y, bd.m, bd.d)
        /\ y = today.y <=> ~DateLess(Date(today.y, bd.m, bd.d), today)
        /\ DateOk(y, bd.m, bd.d)
        /\ Ordinal(Date(y, bd.m, bd.d)) - Ordinal(today) \in 0..6}

InWindow(rec, today) ==
    /\ rec.birthday # <<>>
    /\ WindowYears(BirthdayValue(rec.birthday[1]), today) # {}

\* C1: get_upcoming_birthdays returns an entry for a record exactly when the
\* record has a birthday whose next occurrence is 0 to 6 days after today, and
\* then exactly one entry.
C1_EntryIffInWindow ==
    ret.op = "get_upcoming_birthdays" =>
        \A i \in 1..Len(book) :
            Cardinality({k \in 1..Len(ret.val) : ret.val[k].name = book[i].name})
                = IF InWindow(book[i], ret.args[1]) THEN 1 ELSE 0

\* C2: the greeting date of every returned entry is the upcoming birthday
\* itself on Monday to Friday, two days later on a Saturday and one day later
\* on a Sunday; it is never a Saturday or Sunday and lies between today and
\* today + 8 days.
C2_GreetingDate ==
    ret.op = "get_upcoming_birthdays" =>
        \A k \in 1..Len(ret.val) :
            LET today == ret.args[1]
                bd    == BirthdayValue(Find(book, ret.val[k].name)[1].birthday[1])
                years == WindowYears(bd, today)
                up    == Date(CHOOSE y \in years : TRUE, bd.m, bd.d)
                shift == IF Weekday(up) = 5 THEN 2 ELSE IF Weekday(up) = 6 THEN 1 ELSE 0
                g     == GreetingOf(ret.val[k])
            IN  /\ years # {}
                /\ Ordinal(g) = Ordinal(up) + shift
                /\ Weekday(g) \notin {5, 6}
                /\ Ordinal(g) - Ordinal(today) \in 0..8

\* A Saturday birthday six days after today was returned with the Monday
\* eight days after today as its greeting date.
C2_Witness ==
    /\ ret.op = "get_upcoming_birthdays"
    /\ \E k \in 1..Len(ret.val) :
          /\ Ordinal(GreetingOf(ret.val[k])) = Ordinal(ret.args[1]) + 8
          /\ Weekday(GreetingOf(ret.val[k])) = 0

\* C3: edit_phone(old, new) fails with the not-found error when no phone
\* equals old, else with the validation error when new is not a valid phone,
\* both leaving the phones as they were; else it replaces the first phone equal
\* to old, in place.
C3_EditPhone ==
    ret.op = "edit_phone" =>
        LET old    == ret.args[2]
            new    == ret.args[3]
            before == Find(prev, ret.args[1])[1].phones
            after  == Find(book, ret.args[1])[1].phones
        IN  IF \A i \in 1..Len(before) : before[i] # old
            THEN ret.err = "ValueError" /\ ret.msg = "Phone number not found" /\ after = before
            ELSE IF ~IsTenAsciiDigits(new)
            THEN ret.err = "ValueError" /\ ret.msg = "Invalid new phone number" /\ after = before
            ELSE /\ ret.err = ""
                 /\ Len(after) = Len(before)
                 /\ \E i \in 1..Len(before) :
                       /\ before[i] = old
                       /\ \A j \in 1..(i - 1) : before[j] # old
                       /\ after[i] = new
                       /\ \A j \in 1..Len(before) : j # i => after[j] = before[j]

\* C4: every phone stored in every record of the book is a string of exactly
\* 10 ASCII digits.
C4_PhonesAreTenAsciiDigits ==
    \A i \in 1..Len(book) :
        \A k \in 1..Len(book[i].phones) : IsTenAsciiDigits(book[i].phones[k])

\* C5: add_birthday(raw) never raises; a raw that is not a valid DD.MM.YYYY
\* date leaves the birthday as it was, a valid one becomes the birthday.
C5_AddBirthday ==
    ret.op = "add_birthday" =>
        /\ ret.err = ""
        /\ Find(book, ret.args[1])[1].birthday =
              IF IsDDMMYYYY(ret.args[2]) THEN <<ret.args[2]>>
              ELSE Find(prev, ret.args[1])[1].birthday

\* C6: the book holds at most one record per name, and add_record(r) leaves
\* exactly r under r's name, every other name as it was, and one entry more
\* only when the name was absent.
C6_AddRecordUpsert ==
    /\ \A i \in 1..Len(book) : \A j \in 1..Len(book) :
          book[i].name = book[j].name => i = j
    /\ ret.op = "add_record" =>
          LET r == ret.args[1]
          IN  /\ Find(book, r.name) = <<r>>
              /\ \A n \in Names \ {r.name} : Find(book, n) = Find(prev, n)
              /\ Len(book) = Len(prev) + (IF Find(prev, r.name) = <<>> THEN 1 ELSE 0)

\* add_record put an empty record over one that had a phone and a birthday,
\* beside a record under the other name.
C6_Witness ==
    /\ ret.op = "add_record"
    /\ Len(prev) = 2
    /\ Find(prev, ret.args[1].name) # <<>>
    /\ Find(prev, ret.args[1].name)[1].phones # <<>>
    /\ Find(prev, ret.args[1].name)[1].birthday # <<>>
    /\ ret.args[1].phones = <<>>
    /\ ret.args[1].birthday = <<>>

\* C7: get_upcoming_birthdays completes with its list for every book and
\* every today; the other operations return or raise the validation or
\* not-found error.
C7_NoUntypedFailure ==
    /\ ret.op = "get_upcoming_birthdays" => ret.err = ""
    /\ ret.op \in {"add_record", "add_birthday", "show_birthday"} =>
          ret.err \in {"", "ValueError"}

\* C8: show_birthday gives back, character for character, the string the
\* Birthday validator accepted; 31.02.2024 and non-numeric components are
\* rejected.
C8_BirthdayRoundTrip ==
    /\ ret.op = "show_birthday" /\ ret.val # <<>> =>
          ret.val[1] = Find(book, ret.args[1])[1].birthday[1]
    /\ ret.op = "add_birthday" /\ ret.args[2] \in {Bday3102, BdayAlpha} =>
          Find(book, ret.args[1]) = Find(prev, ret.args[1])

\* C9: the birthdays command lists one group per greeting date, the groups
\* in ascending chronological order of greeting date, the names of a group in
\* the order of the book.
C9_GroupsChronological ==
    ret.op = "birthdays" /\ ret.err = "" =>
        LET up     == GetUpcomingBirthdays(book, ret.args[1]).val
            groups == ret.val
            day(n) == GreetingOf(up[CHOOSE k \in 1..Len(up) : up[k].name = n])
        IN  /\ \A k \in 1..Len(up) :
                  \E g \in 1..Len(groups) :
                      \E a \in 1..Len(groups[g].names) : groups[g].names[a] = up[k].name
            /\ \A g \in 1..Len(groups) :
                  \A a \in 1..Len(groups[g].names) : \A c \in 1..Len(groups[g].names) :
                      /\ day(groups[g].names[a]) = day(groups[g].names[c])
                      /\ a < c => IndexOf(book, groups[g].names[a]) < IndexOf(book, groups[g].names[c])
            /\ \A g \in 1..(Len(groups) - 1) :
                  Ordinal(day(groups[g].names[1])) < Ordinal(day(groups[g + 1].names[1]))

\* C10: a command whose handler reports an error leaves the book as it was.
C10_ErrorLeavesBook ==
    (/\ ret.op \in {"add", "change", "phone", "add-birthday", "show-birthday", "birthdays"}
     /\ ret.err # "")
        => book = prev

====
